---- MODULE Spec2Model ----
(***************************************************************************)
(* Model of extract_and_build.py: clean_text / join_and_clean, the row     *)
(* selection and field extraction of scrape_first10, and main's output     *)
(* steps (makedirs, the two json.dump writes, the instruction block).      *)
(*                                                                         *)
(* Text is a sequence of characters; a character is a one-token string.    *)
(* "NBSP" is U+00A0, "LF" stands for every whitespace character other than *)
(* space and NBSP (tab, newline, ...), "ENDASH" is U+2013, "QUOTE" is the  *)
(* double quote and "BSLASH" the backslash.                                *)
(***************************************************************************)
EXTENDS Integers, Sequences, FiniteSets

VARIABLES
    txt,        \* clean_text: the argument of the first call
    results,    \* clean_text: the values returned by successive calls
    doc,        \* the page served at args.url, parsed (html.fromstring)
    args,       \* argparse namespace: range, values_out, body_out
    dirs,       \* file system: the directories that exist
    files,      \* file system: path -> content
    fs0,        \* the file system as main() found it
    pc,         \* position of main() / scrape_first10()
    err,        \* the exception that ended the run ("" while none)
    rows,       \* scrape_first10: the nodes doc.xpath(ROWS_1_TO_10_XPATH) selected
    idx,        \* scrape_first10: index in rows of the next tr of the for loop
    values,     \* scrape_first10 / main: the grid
    out         \* what was printed, in order

vars == <<txt, results, doc, args, dirs, files, fs0, pc, err, rows, idx, values, out>>

-----------------------------------------------------------------------------
(* Bounds *)
MaxLen == 5          \* longest text given to clean_text
MaxApply == 2        \* clean_text applied to its own result this many times
MaxTables == 2       \* tables in a document
MaxRows == 12        \* most body rows of a table
MaxVariant == 3      \* cell-content variants of a document: 0..MaxVariant

-----------------------------------------------------------------------------
(* Text *)

None == <<"None">>

\* what Python's \s and str.strip() treat as whitespace (str patterns: Unicode)
IsSpace(c) == c \in {" ", "LF", "NBSP"}

IsDigit(c) == c \in {"0", "1", "2", "3", "4", "5", "6", "7", "8", "9"}

\* r"\[\s*[^]]+\]" matched at position p of s: the index of the closing bracket,
\* or 0 when the pattern does not match there.
CiteEnd(s, p) ==
    LET ends == {e \in (p + 2)..Len(s) :
                    /\ s[p] = "["
                    /\ s[e] = "]"
                    /\ \E k \in (p + 1)..(e - 1) :
                          /\ \A j \in (p + 1)..(k - 1) : IsSpace(s[j])
                          /\ \A j \in k..(e - 1) : s[j] # "]"}
    IN IF ends = {} THEN 0 ELSE CHOOSE e \in ends : \A f \in ends : e <= f

RECURSIVE SubFrom(_, _)
\* re.sub scanning s from position p: leftmost non-overlapping matches removed
SubFrom(s, p) ==
    IF p > Len(s) THEN <<>>
    ELSE IF CiteEnd(s, p) > 0 THEN SubFrom(s, CiteEnd(s, p) + 1)
    ELSE <<s[p]>> \o SubFrom(s, p + 1)

\* line 30: txt = re.sub(r"\[\s*[^]]+\]", "", txt)
SubCitations(s) == SubFrom(s, 1)

\* line 31: txt = txt.replace(U+00A0, " ")
ReplaceNbsp(s) == [i \in 1..Len(s) |-> IF s[i] = "NBSP" THEN " " ELSE s[i]]

RECURSIVE CollapseFrom(_, _)
CollapseFrom(s, p) ==
    IF p > Len(s) THEN <<>>
    ELSE IF IsSpace(s[p])
         THEN IF p > 1 /\ IsSpace(s[p - 1])
              THEN CollapseFrom(s, p + 1)
              ELSE <<" ">> \o CollapseFrom(s, p + 1)
         ELSE <<s[p]>> \o CollapseFrom(s, p + 1)

\* line 32: txt = re.sub(r"\s+", " ", txt): each maximal run becomes one space
CollapseWs(s) == CollapseFrom(s, 1)

\* line 33: txt.strip()
Strip(s) ==
    LET keep == {i \in 1..Len(s) : ~IsSpace(s[i])}
    IN IF keep = {} THEN <<>>
       ELSE LET lo == CHOOSE i \in keep : \A j \in keep : i <= j
                hi == CHOOSE i \in keep : \A j \in keep : i >= j
            IN SubSeq(s, lo, hi)

\* C5 mutant: .strip() applied first instead of last
clean_text_StripFirst(t) ==
    IF t = None THEN <<>>
    ELSE CollapseWs(ReplaceNbsp(SubCitations(Strip(t))))

\* C4 mutant: the result returned without .strip()
clean_text_NoStrip(t) ==
    IF t = None THEN <<>>
    ELSE CollapseWs(ReplaceNbsp(SubCitations(t)))

clean_text(t) ==
    IF t = None THEN <<>>
    ELSE Strip(CollapseWs(ReplaceNbsp(SubCitations(t))))

-----------------------------------------------------------------------------
(* Documents: a document is the sequence of its table elements in document  *)
(* order; a table carries the two tests of TABLE_XPATH and its tbody/tr     *)
(* rows; a row is the sequence of its th/td children; a cell is its tag and *)
(* its descendant text nodes.                                               *)

Min(a, b) == IF a <= b THEN a ELSE b

DigitChars == <<"0", "1", "2", "3", "4", "5", "6", "7", "8", "9">>

\* the text of the first cell of row i of table t: different for every row
RowId(t, i) == <<DigitChars[t + 1], DigitChars[(i \div 10) + 1], DigitChars[(i % 10) + 1]>>

Cell(tag, nodes) == [tag |-> tag, nodes |-> nodes]

ScorePool ==
    << << <<"4", "ENDASH", "2">> >>,
       << <<"T", "B", "D">> >>,
       << <<"1", "NBSP", "-", "LF", "0">>, <<"[", "n", " ", "1", "]">> >>,
       << <<"ENDASH", "2">> >> >>

WinnerPool ==
    << << <<"U", "r", "u">> >>,
       << <<" ", "I", "t", "a">>, <<"[", "2", "]">> >>,
       << <<"a", "QUOTE", "b", "BSLASH">> >> >>

RunnerPool ==
    << << <<"A", "r", "g">> >>,
       << <<"C", "z", "e", "NBSP">> >> >>

\* body row i of the table at position t, in content variant v
RowOf(t, i, v) ==
    LET year   == <<RowId(t, i)>> \o (IF (i + v) % 3 = 0 THEN << <<"[", "a", "]">> >> ELSE <<>>)
        winner == WinnerPool[((i + v) % 3) + 1]
        score  == ScorePool[((i + t + v) % 4) + 1]
        runner == RunnerPool[((i + v) % 2) + 1]
        layout == (i + 2 * v) % 5
    IN IF i = 1
       THEN <<Cell("th", year), Cell("th", winner), Cell("th", score), Cell("th", runner)>>
       ELSE IF layout = 3
            THEN <<Cell("td", year), Cell("td", winner), Cell("td", score), Cell("td", runner)>>
       ELSE IF layout = 4
            THEN <<Cell("th", year), Cell("td", winner)>>
       ELSE <<Cell("th", year), Cell("td", winner), Cell("td", score), Cell("td", runner),
              Cell("td", <<>>)>>

RowCounts == {0, 1, 3, 11, MaxRows}

\* a table's <<class test, caption test>> and number of body rows: a matching table
\* of each size, and a full-size table failing each test of TABLE_XPATH
TableShapes ==
    ({<<TRUE, TRUE>>} \X RowCounts) \cup ({<<FALSE, TRUE>>, <<TRUE, FALSE>>} \X {MaxRows})

TableOf(k, n, t, v) ==
    [wikitable |-> k[1], caption |-> k[2], rows |-> [i \in 1..n |-> RowOf(t, i, v)]]

\* the documents of at most maxT tables
Docs(maxT) ==
    UNION {{[t \in 1..n |-> TableOf(sh[t][1], sh[t][2], t, v)] :
                sh \in [1..n -> TableShapes], v \in 0..MaxVariant} :
           n \in 0..maxT}

\* TABLE_XPATH: //table[contains(@class,'wikitable')][.//caption[contains(.,'List of ...')]]
TABLE_XPATH(tb) == tb.wikitable /\ tb.caption

RECURSIVE RowsFrom(_, _)
\* (TABLE_XPATH/tbody/tr): the tr nodes of every matching table, in document order,
\* each node the pair <<table position, row position>>
RowsFrom(d, t) ==
    IF t > Len(d) THEN <<>>
    ELSE (IF TABLE_XPATH(d[t]) THEN [i \in 1..Len(d[t].rows) |-> <<t, i>>] ELSE <<>>)
         \o RowsFrom(d, t + 1)

\* C2 mutant: position()>=1 and position()<=10
ROWS_FROM_FIRST(d) ==
    LET all == RowsFrom(d, 1) IN SubSeq(all, 1, Min(10, Len(all)))

\* (TABLE_XPATH/tbody/tr)[position()>1 and position()<=11]
ROWS_1_TO_10_XPATH(d) ==
    LET all == RowsFrom(d, 1) IN SubSeq(all, 2, Min(11, Len(all)))

NodeAt(d, n) == d[n[1]].rows[n[2]]

\* "./*[self::th or self::td][1]//text()"
YEAR_REL_XPATH(tr) == IF Len(tr) >= 1 THEN tr[1].nodes ELSE <<>>

TdText(tr, n) ==
    LET tds == SelectSeq(tr, LAMBDA c : c.tag = "td")
    IN IF Len(tds) >= n THEN tds[n].nodes ELSE <<>>

\* "./td[1]//text()", "./td[2]//text()", "./td[3]//text()"
WINNER_REL_XPATH(tr) == TdText(tr, 1)
SCORE_REL_XPATH(tr) == TdText(tr, 2)
RUNNERSUP_REL_XPATH(tr) == TdText(tr, 3)

RECURSIVE Join(_)
\* "".join(nodes)
Join(nodes) == IF nodes = <<>> THEN <<>> ELSE Head(nodes) \o Join(Tail(nodes))

join_and_clean(nodes) == IF nodes = <<>> THEN <<>> ELSE clean_text(Join(nodes))

\* re.search(r"\d+\s*[ENDASH-]\s*\d+", score)
ScoreLooksOk(s) ==
    \E i \in 1..Len(s), k \in 1..Len(s), j \in 1..Len(s) :
        /\ i < k /\ k < j
        /\ IsDigit(s[i]) /\ IsDigit(s[j])
        /\ s[k] \in {"ENDASH", "-"}
        /\ \A m \in (i + 1)..(k - 1) : IsSpace(s[m])
        /\ \A m \in (k + 1)..(j - 1) : IsSpace(s[m])

HEADER == << <<"y", "e", "a", "r">>, <<"w", "i", "n", "n", "e", "r">>,
             <<"s", "c", "o", "r", "e">>,
             <<"r", "u", "n", "n", "e", "r", "s", "_", "u", "p">> >>

\* lines 50-53 and 59: the grid row built from a tr
RowValues(tr) ==
    <<join_and_clean(YEAR_REL_XPATH(tr)), join_and_clean(WINNER_REL_XPATH(tr)),
      join_and_clean(SCORE_REL_XPATH(tr)), join_and_clean(RUNNERSUP_REL_XPATH(tr))>>

-----------------------------------------------------------------------------
(* Files and JSON *)

Paths == {"data/values.json", "data/append_body.json", "out/x.json", "x.json"}

\* os.path.dirname; "." is the working directory
DirOf(p) ==
    IF p \in {"data/values.json", "data/append_body.json"} THEN "data"
    ELSE IF p = "out/x.json" THEN "out"
    ELSE "."

RANGE_DEFAULT == <<"S", "h", "e", "e", "t", "1", "!", "A", ":", "D">>

Ranges == {RANGE_DEFAULT, <<"QUOTE", "a", " ", "b", "QUOTE", "!", "A", "1">>}

ROWS == <<"R", "O", "W", "S">>

\* a file: absent, left by an earlier run ("old"), opened for writing and not
\* (or not completely) written ("partial"), or a JSON text ("array": values only;
\* "object": range, majorDimension, values)
File(kind, range, dim, grid) ==
    [kind |-> kind, range |-> range, majorDimension |-> dim, values |-> grid]

Absent == File("absent", <<>>, <<>>, <<>>)
OldFile == File("old", <<>>, <<>>, <<>>)
Partial == File("partial", <<>>, <<>>, <<>>)

RECURSIVE EscFrom(_, _)
EscFrom(s, p) ==
    IF p > Len(s) THEN <<>>
    ELSE (IF s[p] = "QUOTE" THEN <<"BSLASH", "QUOTE">>
          ELSE IF s[p] = "BSLASH" THEN <<"BSLASH", "BSLASH">>
          ELSE <<s[p]>>) \o EscFrom(s, p + 1)

\* json.dump of a str with ensure_ascii=False: quoted, quote and backslash escaped
JsonStr(s) == <<"QUOTE">> \o EscFrom(s, 1) \o <<"QUOTE">>

\* json.dump of the grid: an array of arrays of strings
JsonGrid(g) == [i \in 1..Len(g) |-> [j \in 1..Len(g[i]) |-> JsonStr(g[i][j])]]

-----------------------------------------------------------------------------
(* main() and scrape_first10() *)

\* argparse defaults, lines 65-67
ArgsDefault ==
    [range |-> RANGE_DEFAULT, values_out |-> "data/values.json",
     body_out |-> "data/append_body.json"]

ArgsAll == [range : Ranges, values_out : Paths, body_out : Paths]

Printed(kind, year, score) == [kind |-> kind, year |-> year, score |-> score]

\* the state main() starts in: a page, parsed arguments, a file system
InitWith(docs, argset, dirsets) ==
    /\ txt = None
    /\ results = <<>>
    /\ doc \in docs
    /\ args \in argset
    /\ dirs \in {d \cup {"."} : d \in dirsets}
    /\ \E pre \in BOOLEAN :
          files = [p \in Paths |-> IF pre /\ DirOf(p) \in dirs THEN OldFile ELSE Absent]
    /\ fs0 = [dirs |-> dirs, files |-> files]
    /\ pc = "fetch"
    /\ err = ""
    /\ rows = <<>>
    /\ idx = 0
    /\ values = <<>>
    /\ out = <<>>

Init == InitWith(Docs(1), ArgsAll, SUBSET {"data", "out"})

InitScrape == InitWith(Docs(MaxTables), {ArgsDefault}, {{}})

\* an uncaught exception ends the run
Raise(e) ==
    /\ pc' = "failed"
    /\ err' = e

\* lines 40-42: requests.get, raise_for_status, html.fromstring
Fetch ==
    /\ pc = "fetch"
    /\ \E ok \in BOOLEAN :
          IF ok THEN pc' = "xpath" /\ err' = err ELSE Raise("HTTPError")
    /\ UNCHANGED <<txt, results, doc, args, dirs, files, fs0, rows, idx, values, out>>

\* C3 mutant: the empty selection is not rejected
SelectRows_NoCheck ==
    /\ pc = "xpath"
    /\ rows' = ROWS_1_TO_10_XPATH(doc)
    /\ values' = <<HEADER>>
    /\ idx' = 1
    /\ pc' = "loop"
    /\ UNCHANGED <<txt, results, doc, args, dirs, files, fs0, err, out>>

\* lines 44-48
SelectRows ==
    /\ pc = "xpath"
    /\ rows' = ROWS_1_TO_10_XPATH(doc)
    /\ IF rows' = <<>>
       THEN Raise("RuntimeError") /\ UNCHANGED <<values, idx>>
       ELSE /\ values' = <<HEADER>>
            /\ idx' = 1
            /\ pc' = "loop"
            /\ err' = err
    /\ UNCHANGED <<txt, results, doc, args, dirs, files, fs0, out>>

\* C6 mutant: a row whose score looks odd is warned about and skipped
LoopRow_SkipOdd ==
    /\ pc = "loop"
    /\ idx <= Len(rows)
    /\ LET row == RowValues(NodeAt(doc, rows[idx]))
       IN IF ~ScoreLooksOk(row[3])
          THEN /\ out' = Append(out, Printed("warn", row[1], row[3]))
               /\ values' = values
          ELSE /\ out' = out
               /\ values' = Append(values, row)
    /\ idx' = idx + 1
    /\ UNCHANGED <<txt, results, doc, args, dirs, files, fs0, pc, err, rows>>

\* lines 49-59: one iteration of the for loop
LoopRow ==
    /\ pc = "loop"
    /\ idx <= Len(rows)
    /\ LET row == RowValues(NodeAt(doc, rows[idx]))
       IN /\ out' = IF ~ScoreLooksOk(row[3])
                    THEN Append(out, Printed("warn", row[1], row[3]))
                    ELSE out
          /\ values' = Append(values, row)
    /\ idx' = idx + 1
    /\ UNCHANGED <<txt, results, doc, args, dirs, files, fs0, pc, err, rows>>

\* line 60 and line 71: the loop is over, values is returned to main
Return ==
    /\ pc = "loop"
    /\ idx > Len(rows)
    /\ pc' = "makedirs"
    /\ UNCHANGED <<txt, results, doc, args, dirs, files, fs0, err, rows, idx, values, out>>

\* line 74: os.makedirs("data", exist_ok=True)
MakeDirs ==
    /\ pc = "makedirs"
    /\ \E ok \in BOOLEAN :
          IF ok
          THEN dirs' = dirs \cup {"data"} /\ pc' = "open_values" /\ err' = err
          ELSE Raise("OSError") /\ dirs' = dirs
    /\ UNCHANGED <<txt, results, doc, args, files, fs0, rows, idx, values, out>>

\* open(path, "w"): fails when the directory is missing or the system refuses;
\* otherwise the file exists and is empty
Open(path, next) ==
    /\ \E ok \in BOOLEAN :
          IF DirOf(path) \notin dirs
          THEN Raise("FileNotFoundError") /\ files' = files
          ELSE IF ok
          THEN files' = [files EXCEPT ![path] = Partial] /\ pc' = next /\ err' = err
          ELSE Raise("OSError") /\ files' = files
    /\ UNCHANGED <<txt, results, doc, args, dirs, fs0, rows, idx, values, out>>

\* json.dump(obj, f) and the end of the with block: the text is written whole,
\* or the write fails and leaves the file incomplete
Dump(path, content, next) ==
    /\ \E ok \in BOOLEAN :
          IF ok
          THEN files' = [files EXCEPT ![path] = content] /\ pc' = next /\ err' = err
          ELSE Raise("OSError") /\ files' = files
    /\ UNCHANGED <<txt, results, doc, args, dirs, fs0, rows, idx, values, out>>

\* line 75
OpenValues == pc = "open_values" /\ Open(args.values_out, "dump_values")

\* C8 mutant: the grid is written through the wrong path
DumpValues_ToBody ==
    /\ pc = "dump_values"
    /\ Dump(args.body_out, File("array", <<>>, <<>>, JsonGrid(values)), "open_body")

\* line 76
DumpValues ==
    /\ pc = "dump_values"
    /\ Dump(args.values_out, File("array", <<>>, <<>>, JsonGrid(values)), "open_body")

\* line 77
OpenBody == pc = "open_body" /\ Open(args.body_out, "dump_body")

\* C7 mutant: the body is written without the header row
DumpBody_NoHeader ==
    /\ pc = "dump_body"
    /\ Dump(args.body_out,
            File("object", JsonStr(args.range), JsonStr(ROWS), JsonGrid(Tail(values))),
            "print")

\* line 78
DumpBody ==
    /\ pc = "dump_body"
    /\ Dump(args.body_out,
            File("object", JsonStr(args.range), JsonStr(ROWS), JsonGrid(values)),
            "print")

\* lines 81-92: the instruction block
PrintInstructions ==
    /\ pc = "print"
    /\ out' = Append(out, Printed("instructions", <<>>, <<>>))
    /\ pc' = "done"
    /\ UNCHANGED <<txt, results, doc, args, dirs, files, fs0, err, rows, idx, values>>

Next ==
    \/ Fetch
    \/ SelectRows
    \/ LoopRow
    \/ Return
    \/ MakeDirs
    \/ OpenValues
    \/ DumpValues
    \/ OpenBody
    \/ DumpBody
    \/ PrintInstructions

Spec == Init /\ [][Next]_vars

SpecScrape == InitScrape /\ [][Next]_vars

-----------------------------------------------------------------------------
(* clean_text applied to every text of at most MaxLen characters *)

Alphabet == {"[", "]", " ", "LF", "NBSP", "a"}

Texts == UNION {[1..n -> Alphabet] : n \in 0..MaxLen} \cup {None}

InitText ==
    /\ txt \in Texts
    /\ results = <<>>
    /\ doc = <<>>
    /\ args = ArgsDefault
    /\ dirs = {"."}
    /\ files = [p \in Paths |-> Absent]
    /\ fs0 = [dirs |-> dirs, files |-> files]
    /\ pc = "clean_text"
    /\ err = ""
    /\ rows = <<>>
    /\ idx = 0
    /\ values = <<>>
    /\ out = <<>>

\* clean_text(txt)
CallCleanText ==
    /\ pc = "clean_text"
    /\ results = <<>>
    /\ results' = <<clean_text(txt)>>
    /\ UNCHANGED <<txt, doc, args, dirs, files, fs0, pc, err, rows, idx, values, out>>

\* clean_text on the value the previous call returned
CallAgain ==
    /\ pc = "clean_text"
    /\ Len(results) \in 1..(MaxApply - 1)
    /\ results' = Append(results, clean_text(results[Len(results)]))
    /\ UNCHANGED <<txt, doc, args, dirs, files, fs0, pc, err, rows, idx, values, out>>

NextText == CallCleanText \/ CallAgain

SpecText == InitText /\ [][NextText]_vars

-----------------------------------------------------------------------------
(* Properties *)

\* scrape_first10 has returned its grid to main
ScrapeReturned ==
    /\ pc \in {"makedirs", "open_values", "dump_values", "open_body", "dump_body",
               "print", "done", "failed"}
    /\ err \notin {"HTTPError", "RuntimeError"}

Matching(d) == {t \in 1..Len(d) : TABLE_XPATH(d[t])}

FirstMatch(d) == CHOOSE t \in Matching(d) : \A u \in Matching(d) : t <= u

Range(s) == {s[i] : i \in 1..Len(s)}

Warnings == SelectSeq(out, LAMBDA e : e.kind = "warn")

RECURSIVE ExpectedWarnings(_)
\* the warnings due for the first n selected rows, in order
ExpectedWarnings(n) ==
    IF n = 0 THEN <<>>
    ELSE LET row == RowValues(NodeAt(doc, rows[n]))
         IN ExpectedWarnings(n - 1)
            \o (IF ScoreLooksOk(row[3]) THEN <<>> ELSE <<Printed("warn", row[1], row[3])>>)

RECURSIVE UnescFrom(_, _)
UnescFrom(s, p) ==
    IF p > Len(s) THEN <<>>
    ELSE IF s[p] = "BSLASH" /\ p < Len(s) THEN <<s[p + 1]>> \o UnescFrom(s, p + 2)
    ELSE <<s[p]>> \o UnescFrom(s, p + 1)

RECURSIVE EscapedFrom(_, _)
EscapedFrom(s, p) ==
    IF p > Len(s) THEN TRUE
    ELSE IF s[p] = "BSLASH"
         THEN p < Len(s) /\ s[p + 1] \in {"QUOTE", "BSLASH"} /\ EscapedFrom(s, p + 2)
         ELSE s[p] # "QUOTE" /\ EscapedFrom(s, p + 1)

\* e is a JSON string literal
IsJsonStr(e) ==
    /\ Len(e) >= 2
    /\ e[1] = "QUOTE"
    /\ e[Len(e)] = "QUOTE"
    /\ EscapedFrom(SubSeq(e, 2, Len(e) - 1), 1)

\* the text a JSON string literal stands for
ParseStr(e) == UnescFrom(SubSeq(e, 2, Len(e) - 1), 1)

IsJsonGrid(g) == \A i \in 1..Len(g) : \A j \in 1..Len(g[i]) : IsJsonStr(g[i][j])

ParseGrid(g) == [i \in 1..Len(g) |-> [j \in 1..Len(g[i]) |-> ParseStr(g[i][j])]]

\* the file at path p is a JSON array that parses to grid g
HoldsGrid(p, g) ==
    /\ files[p].kind = "array"
    /\ IsJsonGrid(files[p].values)
    /\ ParseGrid(files[p].values) = g

\* the file at path p is the JSON object {range, majorDimension: "ROWS", values: g}
HoldsBody(p, g) ==
    /\ files[p].kind = "object"
    /\ IsJsonStr(files[p].range)
    /\ ParseStr(files[p].range) = args.range
    /\ IsJsonStr(files[p].majorDimension)
    /\ ParseStr(files[p].majorDimension) = <<"R", "O", "W", "S">>
    /\ IsJsonGrid(files[p].values)
    /\ ParseGrid(files[p].values) = g

\* C1: whenever scrape_first10 returns, the grid has exactly 11 rows of exactly 4
\* fields, and a first matching table with fewer than 11 body rows makes the call
\* fail instead of returning.
C1_ElevenRows ==
    ScrapeReturned =>
        /\ Len(values) = 11
        /\ \A r \in 1..Len(values) : Len(values[r]) = 4
        /\ Len(doc[FirstMatch(doc)].rows) >= 11

\* C2: with exactly one matching table, of at least 11 body rows, the grid is the
\* header followed by the rows built from body rows 2..11 of that table, in order,
\* each once; the selection never holds row 1 or a row after the 11th.
C2_RowsTwoToEleven ==
    \A t \in 1..Len(doc) :
        (Matching(doc) = {t} /\ Len(doc[t].rows) >= 11 /\ (pc = "loop" \/ ScrapeReturned)) =>
            /\ rows = [k \in 1..10 |-> <<t, k + 1>>]
            /\ values = <<HEADER>> \o [k \in 1..(idx - 1) |-> RowValues(doc[t].rows[k + 1])]
            /\ \A a, b \in 2..Len(values) : a # b => values[a][1] # values[b][1]
            /\ ScrapeReturned => Len(values) = 11

C2_Witness ==
    /\ ScrapeReturned
    /\ Len(doc) = 2
    /\ Matching(doc) = {2}
    /\ Len(doc[2].rows) = 12
    /\ ~doc[1].wikitable
    /\ Len(values) = 11
    /\ values[11][1] = <<"2", "1", "1">>

\* C3: a failed fetch or a document without a matching table ends the run with an
\* error (RuntimeError for the missing table) before any output step: no file and
\* no directory is created or changed and the instruction block is not printed.
C3_AbortBeforeOutput ==
    /\ (pc = "failed" /\ err \in {"HTTPError", "RuntimeError"}) =>
          /\ files = fs0.files
          /\ dirs = fs0.dirs
          /\ \A i \in 1..Len(out) : out[i].kind # "instructions"
    /\ Matching(doc) = {} =>
          /\ pc \in {"fetch", "xpath", "failed"}
          /\ pc = "failed" => err \in {"HTTPError", "RuntimeError"}
          /\ files = fs0.files
          /\ dirs = fs0.dirs
          /\ out = <<>>

C3_Witness ==
    /\ pc = "failed"
    /\ err = "RuntimeError"
    /\ Len(doc) = 1
    /\ Matching(doc) = {}
    /\ Len(doc[1].rows) = 12
    /\ "data" \notin dirs
    /\ files["x.json"].kind = "old"

\* C4: the text clean_text returns holds no bracketed citation, no NBSP, no two
\* adjacent whitespace characters and no whitespace at either end; None gives "".
C4_CleanOutput ==
    Len(results) >= 1 =>
        LET r == results[1]
        IN /\ \A p \in 1..Len(r) : CiteEnd(r, p) = 0
           /\ "NBSP" \notin Range(r)
           /\ \A p \in 1..(Len(r) - 1) : ~(IsSpace(r[p]) /\ IsSpace(r[p + 1]))
           /\ r # <<>> => ~IsSpace(r[1]) /\ ~IsSpace(r[Len(r)])
           /\ txt = None => r = <<>>

C4_Witness ==
    /\ txt = <<"LF", "[", "a", "]", "NBSP">>
    /\ results = << <<>> >>

\* C5: clean_text applied to its own result returns that result.
C5_Idempotent ==
    \A n \in 2..Len(results) : results[n] = results[n - 1]

C5_Witness ==
    /\ txt = <<"[", "[", "a", "]", "]">>
    /\ results = << <<"]">>, <<"]">> >>

\* C6: for every selected row a warning naming its year is printed exactly when the
\* normalized score has no digits-dash-digits pattern; either way the row is appended
\* with its normalized score and the loop goes on to the last selected row.
C6_WarnOnly ==
    (pc = "loop" \/ ScrapeReturned) =>
        /\ Len(values) = idx
        /\ \A k \in 1..(idx - 1) :
              values[k + 1][3] = join_and_clean(SCORE_REL_XPATH(NodeAt(doc, rows[k])))
        /\ Warnings = ExpectedWarnings(idx - 1)
        /\ ScrapeReturned => idx = Len(rows) + 1

C6_Witness ==
    /\ ScrapeReturned
    /\ Len(values) = 11
    /\ \E a, b, c \in 2..11 :
          /\ a < b
          /\ values[a][3] = <<"T", "B", "D">>
          /\ values[b][3] = <<"4", "ENDASH", "2">>
          /\ values[c][3] = <<"1", " ", "-", " ", "0">>
          /\ \E i \in 1..Len(Warnings) :
                Warnings[i] = Printed("warn", values[a][1], <<"T", "B", "D">>)
          /\ \A i \in 1..Len(Warnings) : Warnings[i].year \notin {values[b][1], values[c][1]}

C8_AllOrNothing ==
    (pc \in {"done", "failed"} /\ args.values_out # args.body_out) =>
        \/ /\ pc = "done"
           /\ HoldsGrid(args.values_out, values)
           /\ HoldsBody(args.body_out, values)
        \/ /\ pc = "failed"
           /\ files[args.values_out] = fs0.files[args.values_out]
           /\ files[args.body_out] = fs0.files[args.body_out]

\* C8 amended: a successful run leaves the body file, and with two different paths
\* the values file, holding its grid; a run aborted by a fetch or structure-mismatch
\* failure leaves every file as it was; a run aborted by a file-system failure may
\* leave the values file truncated or written and the body file not, but never a
\* changed body file beside a values file that is not written; no other file changes.
C8_OrderedOutputs ==
    /\ pc = "done" =>
          /\ HoldsBody(args.body_out, values)
          /\ args.values_out # args.body_out => HoldsGrid(args.values_out, values)
    /\ (pc = "failed" /\ err \in {"HTTPError", "RuntimeError"}) => files = fs0.files
    /\ (pc = "failed" /\ args.values_out # args.body_out
          /\ files[args.body_out] # fs0.files[args.body_out]) =>
          HoldsGrid(args.values_out, values)
    /\ \A p \in Paths \ {args.values_out, args.body_out} : files[p] = fs0.files[p]

C8_Witness ==
    /\ pc = "failed"
    /\ err = "OSError"
    /\ args.values_out = "data/values.json"
    /\ args.body_out = "data/append_body.json"
    /\ HoldsGrid(args.values_out, values)
    /\ fs0.files[args.body_out].kind = "old"
    /\ files[args.body_out] = fs0.files[args.body_out]

\* C9: once main has passed its makedirs step the directory of each output path
\* exists, so no open fails for a missing directory.
C9_DestinationDirs ==
    /\ pc \in {"open_values", "dump_values", "open_body", "dump_body", "print", "done"} =>
          /\ DirOf(args.values_out) \in dirs
          /\ DirOf(args.body_out) \in dirs
    /\ err # "FileNotFoundError"

\* C10: with more than one matching table every selected row is one of body rows
\* 2..11 of the first matching table.
C10_OneTable ==
    (Cardinality(Matching(doc)) >= 2 /\ (pc = "loop" \/ ScrapeReturned)) =>
        \A k \in 1..Len(rows) :
            /\ rows[k][1] = FirstMatch(doc)
            /\ rows[k][2] \in 2..11

====
